---- MODULE Spec2Model ----
(***************************************************************************)
(* Warp kernel node (exts/omni.warp/omni/warp/nodes/OgnKernel.py).         *)
(*                                                                         *)
(* The node keeps an InternalState across evaluations.  Each evaluation    *)
(* (OgnKernel.compute) resolves the device, asks the state whether the     *)
(* kernel must be (re)compiled, compiles and validates it if so, binds the *)
(* node's attributes to the kernel arguments, launches the kernel and      *)
(* writes the outputs back.  The host edits the node between evaluations.  *)
(*                                                                         *)
(* Python's None is the empty sequence and a present value x is <<x>>, so  *)
(* that None compares with values of any type.                             *)
(***************************************************************************)
EXTENDS Integers, Sequences, FiniteSets, TLC

VARIABLES
    state,           \* db.internal_state: the node's InternalState
    inputs,          \* db.inputs: dimCount, dims, codeProvider, codeStr, codeFile
    userAttrsEvent,  \* db.state.userAttrsEvent: set of flags
    attrs,           \* the node's dynamic attributes (full names)
    lens,            \* length of the array held by each array input attribute
    mtime,           \* modification time of the code file on disk
    tmpFiles,        \* temporary source files present on disk
    last,            \* report of the most recent evaluation, or Idle
    failed           \* the most recent evaluation tried to recompile and failed

vars == <<state, inputs, userAttrsEvent, attrs, lens, mtime, tmpFiles, last, failed>>

None == <<>>
Some(x) == <<x>>

Range(s) == {s[i] : i \in 1..Len(s)}

Min(a, b) == IF a < b THEN a ELSE b
Max(a, b) == IF a > b THEN a ELSE b

(***************************************************************************)
(* Bounds of the model.                                                    *)
(***************************************************************************)
MaxMtime == 2
MaxLen == 2
MaxExtent == 3

(***************************************************************************)
(* Names imported from omni.warp.scripts.kernelnode.                       *)
(***************************************************************************)
MAX_DIMENSIONS == 4

\* UserAttributesEvent: a flag set; NONE is the empty set.
EventNone == {}
EventFlags == {"added", "removed"}

\* ATTR_TO_WARP_TYPE.get(attr_type): None for a type name not in the table.
ATTR_TO_WARP_TYPE(attr_type) ==
    CASE attr_type = "float[]" -> Some([array |-> TRUE, dtype |-> "float32", ndim |-> 1])
      [] attr_type = "int[]"   -> Some([array |-> TRUE, dtype |-> "int32", ndim |-> 1])
      [] attr_type = "float"   -> Some([array |-> FALSE, dtype |-> "float32", ndim |-> 0])
      [] OTHER                 -> None

(***************************************************************************)
(* The attributes a node can carry.  An attribute is known by its full     *)
(* name; the node lists its attributes in the order of AttrUniverse.  The   *)
(* short name of an attribute is what follows the last colon of its name:  *)
(* inputs:a and inputs:ns:a share the short name a.                        *)
(***************************************************************************)
AttrUniverse ==
    << "inputs:a", "inputs:ns:a", "inputs:b", "inputs:n", "inputs:o", "inputs:x",
       "outputs:a", "outputs:b", "outputs:n", "outputs:s" >>

\* og.Attribute.get_port_type()
get_port_type(attr) ==
    IF attr \in {"inputs:a", "inputs:ns:a", "inputs:b", "inputs:n", "inputs:o",
                "inputs:x"}
    THEN "input" ELSE "output"

\* og.Attribute.get_type_name()
get_type_name(attr) ==
    CASE attr \in {"inputs:a", "inputs:o", "outputs:a", "outputs:b", "outputs:n"} -> "float[]"
      [] attr = "inputs:b" -> "int[]"
      [] attr \in {"inputs:ns:a", "inputs:n", "outputs:s"} -> "float"
      [] OTHER -> "token"

\* attr.get_name().split(":")[-1]
ShortName(attr) ==
    CASE attr \in {"inputs:a", "inputs:ns:a", "outputs:a"} -> "a"
      [] attr \in {"inputs:b", "outputs:b"} -> "b"
      [] attr \in {"inputs:n", "outputs:n"} -> "n"
      [] attr = "inputs:o" -> "o"
      [] attr = "inputs:x" -> "x"
      [] OTHER -> "s"

\* og.Attribute.is_optional_for_compute
is_optional_for_compute(attr) == attr = "inputs:o"

\* "inputs:{}".format(name) / the attribute db.inputs.<name> resolves to
InputAttr(name) ==
    CASE name = "a" -> "inputs:a" [] name = "b" -> "inputs:b"
      [] name = "n" -> "inputs:n" [] name = "o" -> "inputs:o"
      [] name = "x" -> "inputs:x" [] OTHER -> "inputs:?"

\* the attribute db.outputs.<name> resolves to
OutputAttr(name) ==
    CASE name = "a" -> "outputs:a" [] name = "b" -> "outputs:b"
      [] name = "n" -> "outputs:n" [] name = "s" -> "outputs:s"
      [] OTHER -> "outputs:?"

\* db.node.get_attributes(), restricted to the dynamic ones
get_attributes(node_attrs) == SelectSeq(AttrUniverse, LAMBDA a : a \in node_attrs)

(***************************************************************************)
(* Source texts and files.                                                 *)
(***************************************************************************)
CodeProviders == {"embedded", "file"}
CodeStrs == {"kernel", "nocompute", "notkernel", "syntaxerr"}
CodeFiles == {"kernel.py", "missing.py"}

\* An exception: its Python type and what raised it.
Exc(type, what, attr) == Some([type |-> type, what |-> what, attr |-> attr])

\* open(path).read(): the file kernel.py holds a kernel, missing.py is absent.
ReadFile(path) ==
    IF path = "kernel.py" THEN [exc |-> None, text |-> "kernel"]
    ELSE [exc |-> Exc("OSError", "open", ""), text |-> ""]

\* os.path.getmtime(path)
getmtime(path, fs) ==
    IF path = "kernel.py" THEN [exc |-> None, val |-> fs]
    ELSE [exc |-> Exc("OSError", "getmtime", ""), val |-> 0]

(***************************************************************************)
(* Schema generation and module loading.                                   *)
(***************************************************************************)
\* The members of one port: (short name, warp type) per attribute, in order.
PortMembers(attr_seq, port_type) ==
    LET sub == SelectSeq(attr_seq, LAMBDA a : get_port_type(a) = port_type)
    IN [i \in 1..Len(sub) |->
            <<ShortName(sub[i]), ATTR_TO_WARP_TYPE(get_type_name(sub[i]))[1]>>]

\* generate_header_code: the struct declarations, or RuntimeError for an
\* attribute whose type has no warp type.
generate_header_code(attr_seq) ==
    IF \E i \in 1..Len(attr_seq) : ATTR_TO_WARP_TYPE(get_type_name(attr_seq[i])) = None
    THEN [exc |-> Exc("RuntimeError", "unsupported_type", ""), header |-> None]
    ELSE [exc |-> None,
          header |-> Some([inputs |-> PortMembers(attr_seq, "input"),
                           outputs |-> PortMembers(attr_seq, "output")])]

\* get_user_code: the embedded text, or the file's text.
get_user_code(inp) ==
    IF inp.codeProvider = "embedded" THEN [exc |-> None, text |-> inp.codeStr]
    ELSE IF inp.codeProvider = "file" THEN ReadFile(inp.codeFile)
    ELSE [exc |-> Exc("AssertionError", "code_provider", ""), text |-> ""]

\* The keys of a class body's __annotations__: each name once, in the order
\* of its first declaration.
RECURSIVE FirstKeys(_)
FirstKeys(lines) ==
    IF lines = <<>> THEN <<>>
    ELSE LET init == FirstKeys(SubSeq(lines, 1, Len(lines) - 1))
             name == lines[Len(lines)][1]
         IN IF name \in Range(init) THEN init ELSE Append(init, name)

\* The annotation a class body ends with for a name: the last declaration.
LastDeclared(lines, name) ==
    LET idx == {i \in 1..Len(lines) : lines[i][1] = name}
    IN lines[CHOOSE i \in idx : \A j \in idx : j <= i][2]

\* get_annotations(struct.cls): the mapping name -> annotation, as the
\* sequence of its items.
get_annotations(lines) ==
    LET keys == FirstKeys(lines)
    IN [i \in 1..Len(keys) |-> <<keys[i], LastDeclared(lines, keys[i])>>]

\* annotations.keys()
Keys(annotations) == [i \in 1..Len(annotations) |-> annotations[i][1]]

\* annotations.get(name)
AnnGet(annotations, name) ==
    IF \E i \in 1..Len(annotations) : annotations[i][1] = name
    THEN Some(annotations[CHOOSE i \in 1..Len(annotations) : annotations[i][1] = name][2])
    ELSE None

\* What the user's text defines under the name 'compute'.
UserCompute(text) ==
    CASE text = "kernel" -> "kernel"
      [] text = "notkernel" -> "function"
      [] OTHER -> "absent"

\* tempfile.mkstemp: a path not on disk.
mkstemp(files) == CHOOSE p \in 1..(Cardinality(files) + 1) : p \notin files

\* load_code_as_module removing the temporary file after the import only,
\* without the finally clause.
load_code_as_module_RemoveAfterImport(code, fault, files) ==
    LET file_path == mkstemp(files)
        created == files \cup {file_path}
        exc == IF fault = "write" THEN Exc("OSError", "write", "")
               ELSE IF code.user = "syntaxerr" THEN Exc("SyntaxError", "exec_module", "")
               ELSE None
    IN [exc |-> exc,
        module |-> IF exc # None THEN None
                   ELSE Some([name |-> code,
                              compute |-> UserCompute(code.user),
                              Inputs |-> code.header.inputs,
                              Outputs |-> code.header.outputs]),
        files |-> IF exc # None THEN created ELSE created \ {file_path}]

\* load_code_as_module: write the code to a temporary file, import it, and
\* remove the file whatever happened.  fault = "write" makes the write fail.
load_code_as_module(code, fault, files) ==
    LET file_path == mkstemp(files)
        created == files \cup {file_path}
        exc == IF fault = "write" THEN Exc("OSError", "write", "")
               ELSE IF code.user = "syntaxerr" THEN Exc("SyntaxError", "exec_module", "")
               ELSE None
        removed == created \ {file_path}
    IN [exc |-> exc,
        module |-> IF exc # None THEN None
                   ELSE Some([name |-> code,
                              compute |-> UserCompute(code.user),
                              Inputs |-> code.header.inputs,
                              Outputs |-> code.header.outputs]),
        files |-> removed]

(***************************************************************************)
(* InternalState.                                                          *)
(***************************************************************************)
\* InternalState.__init__
InternalState ==
    [dim_count |-> None, code_provider |-> None, code_str |-> None,
     code_file |-> None, code_file_timestamp |-> None,
     kernel_module |-> None, kernel_annotations |-> None, is_valid |-> FALSE]

\* needs_initialization with the removal of an attribute taken, like an
\* addition, as no reason to recompile a valid state.
needs_initialization_RemovalIgnored(self, inp, event, check_file_modified_time, fs) ==
    IF self.is_valid
       /\ (self.kernel_module = None \/ self.kernel_annotations = None)
    THEN [exc |-> None, val |-> TRUE]
    ELSE IF ~self.is_valid /\ event # EventNone
    THEN [exc |-> None, val |-> TRUE]
    ELSE IF self.dim_count # Some(inp.dimCount)
    THEN [exc |-> None, val |-> TRUE]
    ELSE IF self.code_provider # Some(inp.codeProvider)
    THEN [exc |-> None, val |-> TRUE]
    ELSE IF self.code_provider = Some("embedded")
    THEN [exc |-> None, val |-> self.code_str # Some(inp.codeStr)]
    ELSE IF self.code_provider = Some("file")
    THEN IF self.code_file # Some(inp.codeFile)
         THEN [exc |-> None, val |-> TRUE]
         ELSE IF check_file_modified_time
         THEN LET t == getmtime(self.code_file[1], fs)
              IN IF t.exc # None THEN [exc |-> t.exc, val |-> FALSE]
                 ELSE [exc |-> None, val |-> self.code_file_timestamp # Some(t.val)]
         ELSE [exc |-> None, val |-> FALSE]
    ELSE [exc |-> Exc("AssertionError", "code_provider", ""), val |-> FALSE]

\* needs_initialization without the comparison of the dimension count.
needs_initialization_DimCountIgnored(self, inp, event, check_file_modified_time, fs) ==
    IF self.is_valid
       /\ (self.kernel_module = None
           \/ self.kernel_annotations = None
           \/ "removed" \in event)
    THEN [exc |-> None, val |-> TRUE]
    ELSE IF ~self.is_valid /\ event # EventNone
    THEN [exc |-> None, val |-> TRUE]
    ELSE IF self.code_provider # Some(inp.codeProvider)
    THEN [exc |-> None, val |-> TRUE]
    ELSE IF self.code_provider = Some("embedded")
    THEN [exc |-> None, val |-> self.code_str # Some(inp.codeStr)]
    ELSE IF self.code_provider = Some("file")
    THEN IF self.code_file # Some(inp.codeFile)
         THEN [exc |-> None, val |-> TRUE]
         ELSE IF check_file_modified_time
         THEN LET t == getmtime(self.code_file[1], fs)
              IN IF t.exc # None THEN [exc |-> t.exc, val |-> FALSE]
                 ELSE [exc |-> None, val |-> self.code_file_timestamp # Some(t.val)]
         ELSE [exc |-> None, val |-> FALSE]
    ELSE [exc |-> Exc("AssertionError", "code_provider", ""), val |-> FALSE]

\* needs_initialization taking any attribute event on a valid state, an
\* addition included, as a reason to recompile.
needs_initialization_AnyEventBreaks(self, inp, event, check_file_modified_time, fs) ==
    IF self.is_valid
       /\ (self.kernel_module = None
           \/ self.kernel_annotations = None
           \/ event # EventNone)
    THEN [exc |-> None, val |-> TRUE]
    ELSE IF ~self.is_valid /\ event # EventNone
    THEN [exc |-> None, val |-> TRUE]
    ELSE IF self.dim_count # Some(inp.dimCount)
    THEN [exc |-> None, val |-> TRUE]
    ELSE IF self.code_provider # Some(inp.codeProvider)
    THEN [exc |-> None, val |-> TRUE]
    ELSE IF self.code_provider = Some("embedded")
    THEN [exc |-> None, val |-> self.code_str # Some(inp.codeStr)]
    ELSE IF self.code_provider = Some("file")
    THEN IF self.code_file # Some(inp.codeFile)
         THEN [exc |-> None, val |-> TRUE]
         ELSE IF check_file_modified_time
         THEN LET t == getmtime(self.code_file[1], fs)
              IN IF t.exc # None THEN [exc |-> t.exc, val |-> FALSE]
                 ELSE [exc |-> None, val |-> self.code_file_timestamp # Some(t.val)]
         ELSE [exc |-> None, val |-> FALSE]
    ELSE [exc |-> Exc("AssertionError", "code_provider", ""), val |-> FALSE]

\* InternalState.needs_initialization: whether the kernel must be
\* (re)compiled; reading the file's time may raise.
needs_initialization(self, inp, event, check_file_modified_time, fs) ==
    IF self.is_valid
       /\ (self.kernel_module = None
           \/ self.kernel_annotations = None
           \/ "removed" \in event)
    THEN [exc |-> None, val |-> TRUE]
    ELSE IF ~self.is_valid /\ event # EventNone
    THEN [exc |-> None, val |-> TRUE]
    ELSE IF self.dim_count # Some(inp.dimCount)
    THEN [exc |-> None, val |-> TRUE]
    ELSE IF self.code_provider # Some(inp.codeProvider)
    THEN [exc |-> None, val |-> TRUE]
    ELSE IF self.code_provider = Some("embedded")
    THEN [exc |-> None, val |-> self.code_str # Some(inp.codeStr)]
    ELSE IF self.code_provider = Some("file")
    THEN IF self.code_file # Some(inp.codeFile)
         THEN [exc |-> None, val |-> TRUE]
         ELSE IF check_file_modified_time
         THEN LET t == getmtime(self.code_file[1], fs)
              IN IF t.exc # None THEN [exc |-> t.exc, val |-> FALSE]
                 ELSE [exc |-> None, val |-> self.code_file_timestamp # Some(t.val)]
         ELSE [exc |-> None, val |-> FALSE]
    ELSE [exc |-> Exc("AssertionError", "code_provider", ""), val |-> FALSE]

\* Number of times x occurs in the sequence s.
Count(s, x) == Cardinality({i \in 1..Len(s) : s[i] = x})

\* SameSorted comparing the names as sets, blind to a name that occurs twice.
SameSorted_AsSets(s, t) == Range(s) = Range(t)

\* sorted(s) == sorted(t)
SameSorted(s, t) ==
    /\ Len(s) = Len(t)
    /\ \A x \in Range(s) \cup Range(t) : Count(s, x) = Count(t, x)

\* The short names of the node's attributes of one port, in order.
PortNames(attr_seq, port_type) ==
    LET sub == SelectSeq(attr_seq, LAMBDA a : get_port_type(a) = port_type)
    IN [i \in 1..Len(sub) |-> ShortName(sub[i])]

\* CacheInputs leaving the embedded text out of the snapshot.
CacheInputs_TextForgotten(self, inp) ==
    [self EXCEPT !.dim_count = Some(inp.dimCount),
                 !.code_provider = Some(inp.codeProvider),
                 !.code_file = Some(inp.codeFile)]

\* The snapshot InternalState.initialize takes before compiling.
CacheInputs(self, inp) ==
    [self EXCEPT !.dim_count = Some(inp.dimCount),
                 !.code_provider = Some(inp.codeProvider),
                 !.code_str = Some(inp.codeStr),
                 !.code_file = Some(inp.codeFile)]

\* StoreMembers storing the annotations and forgetting the module.
StoreMembers_AnnotationsOnly(self, kernel_module, kernel_annotations) ==
    [self EXCEPT !.kernel_annotations = Some(kernel_annotations)]

\* What InternalState.initialize stores when the module is accepted.
StoreMembers(self, kernel_module, kernel_annotations) ==
    [self EXCEPT !.kernel_module = Some(kernel_module),
                 !.kernel_annotations = Some(kernel_annotations)]

\* InternalState.initialize: snapshot the inputs, generate and load the
\* module, validate it, store it.  ret is the returned boolean; exc an
\* exception raised instead; errors what db.log_error received.
initialize(self, inp, node_attrs, fault, files) ==
    LET cached == CacheInputs(self, inp)
        attr_seq == get_attributes(node_attrs)
        hdr == generate_header_code(attr_seq)
        user == get_user_code(inp)
        code == [header |-> hdr.header[1], user |-> user.text]
        loaded == load_code_as_module(code, fault, files)
        kernel_module == loaded.module[1]
        kernel_annotations ==
            [input |-> get_annotations(kernel_module.Inputs),
             output |-> get_annotations(kernel_module.Outputs)]
        asserted ==
            /\ SameSorted(Keys(kernel_annotations.input), PortNames(attr_seq, "input"))
            /\ SameSorted(Keys(kernel_annotations.output), PortNames(attr_seq, "output"))
        invalid_attrs ==
            Keys(SelectSeq(kernel_annotations.output, LAMBDA kv : ~kv[2].array))
    IN IF hdr.exc # None
       THEN [self |-> cached, ret |-> FALSE, exc |-> hdr.exc, errors |-> <<>>, files |-> files]
       ELSE IF user.exc # None
       THEN [self |-> cached, ret |-> FALSE, exc |-> user.exc, errors |-> <<>>, files |-> files]
       ELSE IF loaded.exc # None
       THEN [self |-> cached, ret |-> FALSE, exc |-> loaded.exc, errors |-> <<>>,
             files |-> loaded.files]
       ELSE IF kernel_module.compute = "absent"
       THEN [self |-> cached, ret |-> FALSE, exc |-> None,
             errors |-> <<[kind |-> "MissingEntryPoint", names |-> <<>>]>>,
             files |-> loaded.files]
       ELSE IF kernel_module.compute # "kernel"
       THEN [self |-> cached, ret |-> FALSE, exc |-> None,
             errors |-> <<[kind |-> "NotAKernel", names |-> <<>>]>>,
             files |-> loaded.files]
       ELSE IF ~asserted
       THEN [self |-> cached, ret |-> FALSE,
             exc |-> Exc("AssertionError", "annotations", ""), errors |-> <<>>,
             files |-> loaded.files]
       ELSE IF invalid_attrs # <<>>
       THEN [self |-> cached, ret |-> FALSE, exc |-> None,
             errors |-> <<[kind |-> "InvalidOutputType", names |-> invalid_attrs]>>,
             files |-> loaded.files]
       ELSE [self |-> StoreMembers(cached, kernel_module, kernel_annotations),
             ret |-> TRUE, exc |-> None, errors |-> <<>>, files |-> loaded.files]

(***************************************************************************)
(* Binding and dispatch.                                                   *)
(***************************************************************************)
\* compute, the kernel's dimensions: dimCount clamped to 1..MAX_DIMENSIONS,
\* each extent clamped to at least 0.
LaunchDims(dimCount, dims) ==
    LET dim_count == Min(Max(dimCount, 1), MAX_DIMENSIONS)
    IN [i \in 1..dim_count |-> Max(dims[i], 0)]

\* functools.reduce(operator.mul, dims)
RECURSIVE Product(_)
Product(dims) ==
    IF Len(dims) = 1 THEN dims[1]
    ELSE Product(SubSeq(dims, 1, Len(dims) - 1)) * dims[Len(dims)]

\* are_array_annotations_equal
are_array_annotations_equal(annotation_1, annotation_2) ==
    /\ annotation_1.dtype = annotation_2.dtype
    /\ annotation_1.ndim = annotation_2.ndim

\* The array-typed input attributes of the node: the ones that hold a buffer.
ArrayInputs(node_attrs) ==
    {a \in node_attrs :
        /\ get_port_type(a) = "input"
        /\ ATTR_TO_WARP_TYPE(get_type_name(a)) # None
        /\ ATTR_TO_WARP_TYPE(get_type_name(a))[1].array}

\* get_kernel_args, the inputs struct: each member's value; an array member
\* is cast to a warp array of the attribute's length, null when empty.
BindInputs(annotations, values) ==
    [i \in 1..Len(annotations.input) |->
        LET name == annotations.input[i][1]
        IN <<name,
             IF annotations.input[i][2].array
             THEN [array |-> TRUE, len |-> values[InputAttr(name)],
                   ptr |-> values[InputAttr(name)] > 0]
             ELSE [array |-> FALSE, len |-> 0, ptr |-> FALSE]>>]

\* OutputSize taking the length of any array input of the same name,
\* whatever its element type.
OutputSize_ByNameOnly(annotations, bound_inputs, dims, name, warp_annotation) ==
    LET ref_annotation == AnnGet(annotations.input, name)
    IN IF ref_annotation # None /\ ref_annotation[1].array
       THEN AnnGet(bound_inputs, name)[1].len
       ELSE Product(dims)

\* get_kernel_args, the size to allocate for one output member.
OutputSize(annotations, bound_inputs, dims, name, warp_annotation) ==
    LET ref_annotation == AnnGet(annotations.input, name)
    IN IF /\ ref_annotation # None
          /\ ref_annotation[1].array
          /\ are_array_annotations_equal(warp_annotation, ref_annotation[1])
       THEN AnnGet(bound_inputs, name)[1].len
       ELSE Product(dims)

\* get_kernel_args, the outputs loop from member i on: sizes holds the
\* (name, size) set so far; a member with no attribute on the node raises.
RECURSIVE AllocOutputs(_, _, _, _, _, _)
AllocOutputs(node_attrs, annotations, bound_inputs, dims, i, sizes) ==
    IF i > Len(annotations.output) THEN [exc |-> None, sizes |-> sizes]
    ELSE LET name == annotations.output[i][1]
         IN IF OutputAttr(name) \notin node_attrs
            THEN [exc |-> Exc("AttributeError", "outputs", OutputAttr(name)),
                  sizes |-> sizes]
            ELSE AllocOutputs(node_attrs, annotations, bound_inputs, dims, i + 1,
                    Append(sizes,
                        <<name, OutputSize(annotations, bound_inputs, dims, name,
                                           annotations.output[i][2])>>))

\* get_kernel_args: the inputs struct and the sizes set on the outputs.
get_kernel_args(node_attrs, annotations, dims, values) ==
    IF \E i \in 1..Len(annotations.input) :
            InputAttr(annotations.input[i][1]) \notin node_attrs
    THEN [exc |-> Exc("AttributeError", "inputs", ""), inputs |-> <<>>, sizes |-> <<>>]
    ELSE LET bound_inputs == BindInputs(annotations, values)
             out == AllocOutputs(node_attrs, annotations, bound_inputs, dims, 1, <<>>)
         IN [exc |-> out.exc, inputs |-> bound_inputs, sizes |-> out.sizes]

\* EmptyRequired without the test: no member is ever found empty.
EmptyRequired_Unchecked(bound_inputs) == <<>>

\* compute, the check of the inputs: the array members that are empty and
\* not optional, in order.
EmptyRequired(bound_inputs) ==
    SelectSeq(bound_inputs,
        LAMBDA kv : /\ kv[2].array
                    /\ ~is_optional_for_compute(InputAttr(kv[1]))
                    /\ ~kv[2].ptr)

\* write_output_attrs copying the outputs back on every device.
write_output_attrs_AnyDevice(annotations, is_cuda) == Keys(annotations.output)

\* write_output_attrs: the output attributes written, none on CUDA.
write_output_attrs(annotations, is_cuda) ==
    IF is_cuda THEN <<>> ELSE Keys(annotations.output)

\* HasOutputs without the early exit.
HasOutputs_Always(annotations) == TRUE

\* compute, "exit early if there are no outputs": whether to go on.
HasOutputs(annotations) == annotations.output # <<>>

\* The part of compute after the internal state is in order: returns early
\* without outputs, else binds, checks, launches and writes back.
Dispatch(self, inp, node_attrs, values, is_cuda, fault) ==
    IF self.kernel_annotations = None
    THEN [exc |-> Exc("TypeError", "kernel_annotations", ""), trace |-> <<>>,
          bound |-> None, sizes |-> <<>>, launch |-> None, written |-> <<>>]
    ELSE LET annotations == self.kernel_annotations[1]
             dims == LaunchDims(inp.dimCount, inp.dims)
             args == get_kernel_args(node_attrs, annotations, dims, values)
             empty == EmptyRequired(args.inputs)
         IN IF ~HasOutputs(annotations)
            THEN [exc |-> None, trace |-> <<>>, bound |-> None, sizes |-> <<>>,
                  launch |-> None, written |-> <<>>]
            ELSE IF args.exc # None
            THEN [exc |-> args.exc, trace |-> <<"get_kernel_args">>,
                  bound |-> None, sizes |-> args.sizes, launch |-> None,
                  written |-> <<>>]
            ELSE IF empty # <<>>
            THEN [exc |-> Exc("RuntimeError", "empty", InputAttr(empty[1][1])),
                  trace |-> <<"get_kernel_args", "check_inputs">>,
                  bound |-> Some(args.inputs), sizes |-> args.sizes,
                  launch |-> None, written |-> <<>>]
            ELSE IF self.kernel_module = None
            THEN [exc |-> Exc("AttributeError", "kernel_module", ""),
                  trace |-> <<"get_kernel_args", "check_inputs">>,
                  bound |-> Some(args.inputs), sizes |-> args.sizes,
                  launch |-> None, written |-> <<>>]
            ELSE IF fault = "launch"
            THEN [exc |-> Exc("RuntimeError", "launch", ""),
                  trace |-> <<"get_kernel_args", "check_inputs">>,
                  bound |-> Some(args.inputs), sizes |-> args.sizes,
                  launch |-> None, written |-> <<>>]
            ELSE [exc |-> None,
                  trace |-> <<"get_kernel_args", "check_inputs", "launch",
                              "write_output_attrs">>,
                  bound |-> Some(args.inputs), sizes |-> args.sizes,
                  launch |-> Some([module |-> self.kernel_module[1], dims |-> dims,
                                   is_cuda |-> is_cuda]),
                  written |-> write_output_attrs(annotations, is_cuda)]

\* compute(db, device): (re)initialize the internal state when needed, then
\* dispatch.  need tells what needs_initialization answered ("True", "False"
\* or "raise"), init what became of InternalState.initialize: "none" (not
\* called), "True", "False" or "raise".
compute(self, inp, event, node_attrs, values, fs, files, is_cuda, stopped, fault) ==
    LET need == needs_initialization(self, inp, event, stopped, fs)
        init == initialize(self, inp, node_attrs, fault, files)
        ready == IF need.val THEN [init.self EXCEPT !.is_valid = TRUE] ELSE self
        d == Dispatch(ready, inp, node_attrs, values, is_cuda, fault)
    IN IF need.exc # None
       THEN [self |-> self, exc |-> need.exc, errors |-> <<>>, need |-> "raise",
             init |-> "none",
             trace |-> <<"needs_initialization">>, bound |-> None, sizes |-> <<>>,
             launch |-> None, written |-> <<>>, files |-> files]
       ELSE IF need.val /\ init.exc # None
       THEN [self |-> init.self, exc |-> init.exc, errors |-> <<>>, need |-> "True",
             init |-> "raise",
             trace |-> <<"needs_initialization", "initialize">>, bound |-> None,
             sizes |-> <<>>, launch |-> None, written |-> <<>>, files |-> init.files]
       ELSE IF need.val /\ ~init.ret
       THEN [self |-> init.self, exc |-> None, errors |-> init.errors, need |-> "True",
             init |-> "False",
             trace |-> <<"needs_initialization", "initialize">>, bound |-> None,
             sizes |-> <<>>, launch |-> None, written |-> <<>>, files |-> init.files]
       ELSE [self |-> ready, exc |-> d.exc, errors |-> <<>>,
             need |-> IF need.val THEN "True" ELSE "False",
             init |-> IF need.val THEN "True" ELSE "none",
             trace |-> (IF need.val THEN <<"needs_initialization", "initialize">>
                        ELSE <<"needs_initialization">>) \o d.trace,
             bound |-> d.bound, sizes |-> d.sizes, launch |-> d.launch,
             written |-> d.written,
             files |-> IF need.val THEN init.files ELSE files]

(***************************************************************************)
(* The node's entry point.                                                 *)
(***************************************************************************)
\* wp.get_device(alias): the CPU always resolves, cuda:0 when the machine has
\* a CUDA device, anything else raises.
get_device(alias, has_cuda) ==
    IF alias = "cpu" THEN [exc |-> None, is_cuda |-> FALSE]
    ELSE IF alias = "cuda:0" /\ has_cuda THEN [exc |-> None, is_cuda |-> TRUE]
    ELSE [exc |-> Exc("RuntimeError", "get_device", ""), is_cuda |-> FALSE]

\* OgnKernel.compute, the device: the requested one or, failing that, cuda:0.
ResolveDevice(alias, has_cuda) ==
    IF get_device(alias, has_cuda).exc = None
    THEN get_device(alias, has_cuda)
    ELSE get_device("cuda:0", has_cuda)

\* OnException dropping the compiled unit as well.
OnException_DropsUnit(self) ==
    [self EXCEPT !.is_valid = FALSE, !.kernel_module = None,
                 !.kernel_annotations = None]

\* OgnKernel.compute, the except clause: the state is marked invalid.
OnException(self) == [self EXCEPT !.is_valid = FALSE]

\* ResetEvent resetting the tag on every path, as a finally clause would.
ResetEvent_Always(event, exc) == EventNone

\* OgnKernel.compute, the attribute event after compute(db, device): reset
\* when it returned, left as it is when it raised.
ResetEvent(event, exc) == IF exc # None THEN event ELSE EventNone

Idle == [kind |-> "idle"]

\* The report of an evaluation that ran compute(db, device) with result r.
Report(pre, event, stopped, r) ==
    [kind |-> "call", pre |-> pre, event |-> event, check |-> stopped,
     escaped |-> None, exc |-> r.exc,
     errors |-> IF r.exc # None
                THEN Append(r.errors, [kind |-> "Traceback", names |-> <<>>])
                ELSE r.errors,
     need |-> r.need, init |-> r.init, trace |-> r.trace, bound |-> r.bound,
     sizes |-> r.sizes,
     launch |-> r.launch, written |-> r.written,
     eventReset |-> (r.exc = None), execOut |-> (r.exc = None)]

\* The report of an evaluation that the exception exc left.
Escaped(pre, event, stopped, exc) ==
    [kind |-> "call", pre |-> pre, event |-> event, check |-> stopped,
     escaped |-> exc, exc |-> None, errors |-> <<>>, need |-> "none", init |-> "none",
     trace |-> <<>>, bound |-> None, sizes |-> <<>>, launch |-> None,
     written |-> <<>>, eventReset |-> FALSE, execOut |-> FALSE]

\* OgnKernel.compute: one evaluation of the node.  The requested device, the
\* machine's CUDA device, the timeline and the fault of the environment are
\* this evaluation's.
OgnKernel_compute(alias, has_cuda, stopped, fault) ==
    \E device \in {ResolveDevice(alias, has_cuda)} :
    \E r \in {compute(state, inputs, userAttrsEvent, attrs, lens, mtime, tmpFiles,
                     device.is_cuda, stopped, fault)} :
       IF device.exc # None
       THEN /\ last' = Escaped(state, userAttrsEvent, stopped, device.exc)
            /\ failed' = FALSE
            /\ UNCHANGED <<state, inputs, userAttrsEvent, attrs, lens, mtime, tmpFiles>>
       ELSE /\ state' = IF r.exc # None THEN OnException(r.self) ELSE r.self
            /\ userAttrsEvent' = ResetEvent(userAttrsEvent, r.exc)
            /\ tmpFiles' = r.files
            /\ last' = Report(state, userAttrsEvent, stopped, r)
            /\ failed' = (r.init \in {"False", "raise"})
            /\ UNCHANGED <<inputs, attrs, lens, mtime>>

(***************************************************************************)
(* The host: edits of the node and of the code file between evaluations.   *)
(***************************************************************************)
\* The user sets inputs:dimCount.
SetDimCount(counts) ==
    \E n \in counts \ {inputs.dimCount} :
        /\ inputs' = [inputs EXCEPT !.dimCount = n]
        /\ last' = Idle
        /\ UNCHANGED <<state, userAttrsEvent, attrs, lens, mtime, tmpFiles, failed>>

\* The user sets inputs:codeProvider.
SetCodeProvider ==
    \E p \in CodeProviders \ {inputs.codeProvider} :
        /\ inputs' = [inputs EXCEPT !.codeProvider = p]
        /\ last' = Idle
        /\ UNCHANGED <<state, userAttrsEvent, attrs, lens, mtime, tmpFiles, failed>>

\* The user edits inputs:codeStr.
SetCodeStr(texts) ==
    \E c \in texts \ {inputs.codeStr} :
        /\ inputs' = [inputs EXCEPT !.codeStr = c]
        /\ last' = Idle
        /\ UNCHANGED <<state, userAttrsEvent, attrs, lens, mtime, tmpFiles, failed>>

\* The user sets inputs:codeFile.
SetCodeFile ==
    \E f \in CodeFiles \ {inputs.codeFile} :
        /\ inputs' = [inputs EXCEPT !.codeFile = f]
        /\ last' = Idle
        /\ UNCHANGED <<state, userAttrsEvent, attrs, lens, mtime, tmpFiles, failed>>

\* The attribute editor adds a dynamic attribute and flags the event; an
\* array attribute starts empty.
AddAttr(candidates) ==
    \E a \in candidates \ attrs :
        /\ attrs' = attrs \cup {a}
        /\ lens' = [x \in ArrayInputs(attrs \cup {a}) |->
                        IF x \in DOMAIN lens THEN lens[x] ELSE 0]
        /\ userAttrsEvent' = userAttrsEvent \cup {"added"}
        /\ last' = Idle
        /\ UNCHANGED <<state, inputs, mtime, tmpFiles, failed>>

\* The attribute editor removes a dynamic attribute and flags the event.
RemoveAttr ==
    \E a \in attrs :
        /\ attrs' = attrs \ {a}
        /\ lens' = [x \in ArrayInputs(attrs \ {a}) |-> lens[x]]
        /\ userAttrsEvent' = userAttrsEvent \cup {"removed"}
        /\ last' = Idle
        /\ UNCHANGED <<state, inputs, mtime, tmpFiles, failed>>

\* An upstream node changes the array an input attribute holds.
SetLen ==
    \E a \in DOMAIN lens : \E n \in {0, MaxLen} \ {lens[a]} :
        /\ lens' = [lens EXCEPT ![a] = n]
        /\ last' = Idle
        /\ UNCHANGED <<state, inputs, userAttrsEvent, attrs, mtime, tmpFiles, failed>>

\* The code file is saved again: its modification time advances.
Touch ==
    /\ mtime < MaxMtime
    /\ mtime' = mtime + 1
    /\ last' = Idle
    /\ UNCHANGED <<state, inputs, userAttrsEvent, attrs, lens, tmpFiles, failed>>

(***************************************************************************)
(* Spec: a node with embedded code whose text and attributes are edited.   *)
(***************************************************************************)
NodeAttrs == {"inputs:a", "inputs:ns:a", "outputs:b", "outputs:s"}
DeviceCases == {<<"cpu", TRUE>>, <<"cuda:0", TRUE>>, <<"cuda:1", TRUE>>, <<"cuda:1", FALSE>>}
Faults == {"none", "write", "launch"}

Evaluate ==
    \E dev \in DeviceCases, fault \in Faults :
        OgnKernel_compute(dev[1], dev[2], TRUE, fault)

EditCode == SetCodeStr(CodeStrs)

EditAttrs == AddAttr(NodeAttrs)

Init ==
    /\ state = InternalState
    /\ inputs = [dimCount |-> 1, dims |-> <<2, 3, 1, 1>>, codeProvider |-> "embedded",
                 codeStr |-> "kernel", codeFile |-> "kernel.py"]
    /\ userAttrsEvent = EventNone
    /\ attrs = {}
    /\ lens = <<>>
    /\ mtime = 1
    /\ tmpFiles = {}
    /\ last = Idle
    /\ failed = FALSE

Next ==
    \/ Evaluate
    \/ EditCode
    \/ EditAttrs
    \/ RemoveAttr
    \/ SetLen

Spec == Init /\ [][Next]_vars

(***************************************************************************)
(* SpecStaleness: a node whose code source (mode, text, file, dimension    *)
(* count) is edited, evaluated while the timeline plays or is stopped.     *)
(***************************************************************************)
EvaluateStaleness ==
    \E stopped \in BOOLEAN : OgnKernel_compute("cpu", TRUE, stopped, "none")

EditDimCount == SetDimCount({1, 2})

EditCodeStaleness == SetCodeStr({"kernel", "nocompute"})

EditAttrsStaleness == AddAttr({"outputs:b"})

NextStaleness ==
    \/ EvaluateStaleness
    \/ EditDimCount
    \/ SetCodeProvider
    \/ EditCodeStaleness
    \/ SetCodeFile
    \/ EditAttrsStaleness
    \/ RemoveAttr
    \/ Touch

SpecStaleness == Init /\ [][NextStaleness]_vars

(***************************************************************************)
(* SpecArgs: nodes of every dimension count, extents and array lengths,    *)
(* evaluated as they are.                                                  *)
(***************************************************************************)
ArgAttrSets ==
    { {"outputs:b"},
      {"inputs:a", "outputs:a"},
      {"inputs:b", "outputs:b"},
      {"inputs:n", "outputs:n"},
      {"inputs:o", "outputs:b"},
      {"inputs:a", "inputs:n", "outputs:a", "outputs:b"} }

InitArgs ==
    /\ state = InternalState
    /\ \E n \in 0..(MAX_DIMENSIONS + 1), dims \in [1..MAX_DIMENSIONS -> -1..MaxExtent] :
          inputs = [dimCount |-> n, dims |-> dims, codeProvider |-> "embedded",
                    codeStr |-> "kernel", codeFile |-> "kernel.py"]
    /\ userAttrsEvent = EventNone
    /\ attrs \in ArgAttrSets
    /\ lens \in [ArrayInputs(attrs) -> 0..MaxLen]
    /\ mtime = 1
    /\ tmpFiles = {}
    /\ last = Idle
    /\ failed = FALSE

EvaluateArgs ==
    \E alias \in {"cpu", "cuda:0"} : OgnKernel_compute(alias, TRUE, TRUE, "none")

NextArgs == EvaluateArgs

SpecArgs == InitArgs /\ [][NextArgs]_vars

(***************************************************************************)
(* Properties.  last reports the evaluation that led to the current state; *)
(* every edit by the host resets it, so in a state where last is a report  *)
(* the node's inputs, attributes and file are those the evaluation saw.    *)
(***************************************************************************)
\* The current state follows an evaluation.
Called == last.kind = "call"

\* ... in which compute(db, device) ran.
Ran == Called /\ last.escaped = None

\* ... in which InternalState.initialize was called.
Attempted == Ran /\ last.init # "none"

\* ... in which the recompile attempt failed: rejected by validation, or
\* aborted by an exception.
FailedValidation == Ran /\ last.init = "False"
FailedAttempt == Ran /\ last.init \in {"False", "raise"}

\* ... in which the staleness step was passed and the outputs looked at.
ReachedDispatch == Ran /\ (last.need = "False" \/ last.init = "True")

\* ... in which the arguments were bound.
Bound == Ran /\ "get_kernel_args" \in Range(last.trace)

\* The validity flag when the evaluation came to dispatch.
ValidAtDispatch == last.init = "True" \/ (last.init = "none" /\ last.pre.is_valid)

\* The snapshot the evaluation found equals the inputs it was given.
SnapshotWasCurrent ==
    /\ last.pre.dim_count = Some(inputs.dimCount)
    /\ last.pre.code_provider = Some(inputs.codeProvider)
    /\ last.pre.code_str = Some(inputs.codeStr)
    /\ last.pre.code_file = Some(inputs.codeFile)

\* C1 (as claimed): of two consecutive evaluations with identical parameters
\* and event tag none, the first starting from a fresh InternalState, the
\* first compiles and the second does not.
C1_SecondCallDoesNotCompile ==
    [][(/\ Ran /\ last.pre = InternalState /\ last.event = EventNone
        /\ last'.kind = "call" /\ last'.escaped = None
        /\ last'.check = last.check)
       => (last.init # "none" /\ last'.init = "none")]_vars

\* C2 (as claimed): after an evaluation whose recompile attempt failed
\* validation, the validity flag is cleared.
C2_FailedValidationInvalidates == FailedValidation => ~state.is_valid

\* C3 (as claimed): arguments are bound only with the validity flag set and
\* a compiled unit with its annotations stored.
C3_BoundOnlyWhenValid ==
    Bound => /\ ValidAtDispatch
             /\ state.kernel_module # None
             /\ state.kernel_annotations # None

\* C3 (amended): arguments are bound, and the kernel launched, only with a
\* compiled unit and its annotations stored; the unit launched is the stored
\* one.  The validity flag need not be set.
C3_BoundOnlyWithUnit ==
    Bound => /\ state.kernel_module # None
             /\ state.kernel_annotations # None
             /\ last.launch # None => last.launch[1].module = state.kernel_module[1]

\* C3, the case: a launch by an evaluation that found the validity flag
\* cleared and did not recompile.
C3_Witness ==
    /\ Bound
    /\ last.launch # None
    /\ last.init = "none"
    /\ ~last.pre.is_valid

\* C4 (as claimed): the execution-enabled signal is fired only by an
\* evaluation whose recompile attempt, if any, did not fail and whose
\* dispatch did not raise.
C4_ExecOutOnlyOnSuccess ==
    (Called /\ last.execOut) => (~FailedAttempt /\ last.exc = None)

\* C5: an evaluation that finds the state valid and the event tag with the
\* removed flag set attempts recompilation.
C5_RemovalForcesRecompile ==
    (Ran /\ last.pre.is_valid /\ "removed" \in last.event) => Attempted

\* C5, the case: a valid state, both flags set, nothing else changed, and
\* the evaluation recompiled.
C5_Witness ==
    /\ Ran
    /\ last.pre.is_valid
    /\ last.event = {"added", "removed"}
    /\ SnapshotWasCurrent
    /\ Attempted

\* The dispatch failed on an empty non-optional array input.
EmptyFailed == Ran /\ last.exc # None /\ last.exc[1].what = "empty"

\* The compiled unit the evaluation dispatched is still the stored one.
UnitKept ==
    /\ state.kernel_module # None
    /\ state.kernel_annotations # None
    /\ last.init = "none" =>
          /\ state.kernel_module = last.pre.kernel_module
          /\ state.kernel_annotations = last.pre.kernel_annotations

\* C6 (as claimed): after a dispatch on a valid state failed on an empty
\* required input, the state is still valid and the compiled unit unchanged.
C6_EmptyInputKeepsValid ==
    (EmptyFailed /\ ValidAtDispatch) => (state.is_valid /\ UnitKept)

\* C6 (amended): after a dispatch on a valid state failed on an empty
\* required input, the compiled unit is unchanged and the validity flag is
\* cleared.
C6_EmptyInputKeepsUnit ==
    (EmptyFailed /\ ValidAtDispatch) => (~state.is_valid /\ UnitKept)

\* C6, the case: the dispatch of a unit compiled earlier, on a valid state,
\* failed on the empty input.
C6_Witness ==
    /\ EmptyFailed
    /\ last.init = "none"
    /\ last.pre.is_valid
    /\ last.exc[1].attr = "inputs:a"

\* C7 (as claimed): no evaluation ends with an exception leaving
\* OgnKernel.compute.
C7_NoExceptionEscapes == Called => last.escaped = None

\* C8 (as claimed): after a failed recompile attempt no compiled unit is
\* stored.
C8_FailedAttemptClearsUnit ==
    FailedAttempt => (state.kernel_module = None /\ state.kernel_annotations = None)

\* The extent of dimension i, at least 0.
C9_Extent(i) == IF inputs.dims[i] < 0 THEN 0 ELSE inputs.dims[i]

\* The number of extents of the shape.
C9_Count ==
    IF inputs.dimCount < 1 THEN 1
    ELSE IF inputs.dimCount > MAX_DIMENSIONS THEN MAX_DIMENSIONS
    ELSE inputs.dimCount

\* The product of the first n extents.
RECURSIVE C9_Volume(_)
C9_Volume(n) == IF n = 0 THEN 1 ELSE C9_Extent(n) * C9_Volume(n - 1)

\* An input member of that name with an equal element type and
\* dimensionality.
C9_MatchingInput(name, annotation) ==
    \E i \in 1..Len(state.kernel_annotations[1].input) :
        LET m == state.kernel_annotations[1].input[i]
        IN m[1] = name /\ m[2].array /\ m[2].dtype = annotation.dtype
           /\ m[2].ndim = annotation.ndim

\* C9: once the arguments are bound, every output member was given a size:
\* the length of the matching input, or else the product of the extents.
C9_OutputSizes ==
    (Ran /\ last.bound # None) =>
        LET out == state.kernel_annotations[1].output
        IN /\ Len(last.sizes) = Len(out)
           /\ \A i \in 1..Len(out) :
                /\ last.sizes[i][1] = out[i][1]
                /\ last.sizes[i][2] =
                      IF C9_MatchingInput(out[i][1], out[i][2])
                      THEN lens[InputAttr(out[i][1])]
                      ELSE C9_Volume(C9_Count)

\* C9, the case: dimension count 3, extents 1, 2, 3 and an input of the
\* output's name but of another element type: 6 is allocated.
C9_Witness ==
    /\ Ran
    /\ last.launch # None
    /\ inputs.dimCount = 3
    /\ SubSeq(inputs.dims, 1, 3) = <<1, 2, 3>>
    /\ attrs = {"inputs:b", "outputs:b"}
    /\ lens["inputs:b"] = 2
    /\ last.sizes = << <<"b", 6>> >>

\* C10: an evaluation that comes to dispatch a compiled unit without
\* outputs binds nothing, sizes nothing, launches nothing, logs nothing,
\* and completes: the event tag is reset and the signal fired.
C10_NoOutputsIsNoOp ==
    (/\ ReachedDispatch
     /\ state.kernel_annotations # None
     /\ state.kernel_annotations[1].output = <<>>)
    => /\ ~Bound
       /\ last.bound = None
       /\ last.sizes = <<>>
       /\ last.launch = None
       /\ last.written = <<>>
       /\ last.errors = <<>>
       /\ last.exc = None
       /\ last.eventReset
       /\ userAttrsEvent = EventNone
       /\ last.execOut

\* C10, the case: a valid unit without outputs, evaluated without recompiling
\* while the node holds an empty required array input and an event is
\* pending.
C10_Witness ==
    /\ ReachedDispatch
    /\ last.init = "none"
    /\ last.pre.is_valid
    /\ state.kernel_annotations # None
    /\ state.kernel_annotations[1].output = <<>>
    /\ last.event = {"added"}
    /\ "inputs:a" \in attrs
    /\ lens["inputs:a"] = 0
    /\ last.execOut

\* The loader ran in the evaluation and this became of it.
LoaderRaised ==
    /\ Ran /\ last.init = "raise" /\ last.exc # None
    /\ last.exc[1].what \in {"write", "exec_module"}

\* C11: after every evaluation, whether load_code_as_module returned or
\* raised on the write or on the import, no temporary source file is left.
C11_NoTemporaryFileLeft == Called => tmpFiles = {}

\* C11, the case: the import of the temporary file raised, and the file is
\* gone.
C11_Witness ==
    /\ LoaderRaised
    /\ last.exc[1].what = "exec_module"
    /\ tmpFiles = {}

\* The node's attributes of one direction.
AttrsOf(port_type) == {a \in attrs : get_port_type(a) = port_type}

\* Two attributes of one direction share a short name.
SharedShortName ==
    \E a, b \in attrs :
        a # b /\ get_port_type(a) = get_port_type(b) /\ ShortName(a) = ShortName(b)

\* The members of a struct are the attributes of its direction, one member
\* per attribute.
MembersMatch(members, port_type) ==
    /\ Range(Keys(members)) = {ShortName(a) : a \in AttrsOf(port_type)}
    /\ Len(members) = Cardinality(AttrsOf(port_type))

\* C12: a recompilation that succeeded stored a unit whose Inputs and Outputs
\* members are exactly the node's attributes of each direction; an attempt on
\* a node where they cannot be (two attributes of one direction share a
\* short name) does not succeed and stores nothing.
C12_MembersMatchAttributes ==
    /\ (Ran /\ last.init = "True") =>
          /\ state.kernel_annotations # None
          /\ MembersMatch(state.kernel_annotations[1].input, "input")
          /\ MembersMatch(state.kernel_annotations[1].output, "output")
          /\ state.kernel_module[1].Inputs = PortMembers(get_attributes(attrs), "input")
    /\ (Attempted /\ SharedShortName) =>
          /\ FailedAttempt
          /\ state.kernel_module = last.pre.kernel_module
          /\ state.kernel_annotations = last.pre.kernel_annotations

\* C12, the case: an attempt on a node with inputs:a and inputs:ns:a, with
\* code that would otherwise compile, stopped by the assertion.
C12_Witness ==
    /\ Attempted
    /\ {"inputs:a", "inputs:ns:a"} \subseteq attrs
    /\ inputs.codeStr = "kernel"
    /\ last.init = "raise"
    /\ last.exc[1].what = "annotations"

\* The snapshot the evaluation found differs from its inputs in a field the
\* current mode reads.
ForcedTrigger ==
    \/ last.pre.dim_count # Some(inputs.dimCount)
    \/ last.pre.code_provider # Some(inputs.codeProvider)
    \/ inputs.codeProvider = "embedded" /\ last.pre.code_str # Some(inputs.codeStr)
    \/ inputs.codeProvider = "file" /\ last.pre.code_file # Some(inputs.codeFile)

\* The evaluation found a valid state with its unit, and no removal pending.
FoundInOrder ==
    /\ last.pre.is_valid
    /\ last.pre.kernel_module # None
    /\ last.pre.kernel_annotations # None
    /\ "removed" \notin last.event

\* The snapshot differs from the inputs in the field of the other mode, and
\* in nothing the current mode reads.
OtherModeFieldOnly ==
    /\ ~ForcedTrigger
    /\ \/ inputs.codeProvider = "embedded" /\ last.pre.code_file # Some(inputs.codeFile)
       \/ inputs.codeProvider = "file" /\ last.pre.code_str # Some(inputs.codeStr)

\* C13: whatever the state and the event tag, the staleness test answers
\* true when the dimension count, the mode, the text (embedded mode) or the
\* path (file mode) differs from the snapshot; a difference in the other
\* mode's field alone, found in a valid state with no removal pending,
\* is answered false (in file mode: when the file's time is not looked at).
C13_ForcedTriggers ==
    /\ (Ran /\ ForcedTrigger) => last.need = "True"
    /\ (Ran /\ FoundInOrder /\ OtherModeFieldOnly
           /\ (inputs.codeProvider = "file" => ~last.check))
       => (last.need = "False" /\ ~Attempted)

\* C13, the case: in file mode, on a valid state, the embedded text alone
\* was edited, and the evaluation did not recompile.
C13_Witness ==
    /\ Ran
    /\ FoundInOrder
    /\ last.event = EventNone
    /\ inputs.codeProvider = "file"
    /\ last.pre.code_str # Some(inputs.codeStr)
    /\ ~ForcedTrigger
    /\ last.need = "False"

\* C14 (as claimed): a recompilation in file mode records the file's
\* modification time in the snapshot, and the evaluation that follows it with
\* nothing changed, the file's time included, does not need to recompile,
\* whether or not it looks at the file's time.
C14_TimestampRecorded ==
    [][(/\ Ran /\ last.init = "True"
        /\ inputs.codeProvider = "file"
        /\ last'.kind = "call" /\ last'.escaped = None)
       => (/\ state.code_file_timestamp = Some(mtime)
           /\ last'.need = "False")]_vars

\* The input attributes the unit found by the evaluation was compiled with.
CompiledInputs == {InputAttr(k) : k \in Range(Keys(last.pre.kernel_annotations[1].input))}

\* An evaluation of a valid state with only an addition pending and nothing
\* else to recompile for.
AdditionOnly ==
    /\ Ran
    /\ FoundInOrder
    /\ last.event = {"added"}
    /\ ~ForcedTrigger
    /\ inputs.codeProvider = "file" => ~last.check

\* C15: an evaluation of a valid state with only the added flag set and no
\* forced trigger does not recompile: the unit stays the one compiled
\* before, it is the one launched, and the test for empty inputs fails only
\* on an input that unit was compiled with.
C15_AdditionDoesNotRecompile ==
    AdditionOnly =>
        /\ last.need = "False"
        /\ ~Attempted
        /\ state.kernel_module = last.pre.kernel_module
        /\ state.kernel_annotations = last.pre.kernel_annotations
        /\ last.launch # None => last.launch[1].module = last.pre.kernel_module[1]
        /\ EmptyFailed => last.exc[1].attr \in CompiledInputs

\* C15, the case: the required array input inputs:a was added, empty, after
\* the unit was compiled, and the kernel is launched all the same.
C15_Witness ==
    /\ AdditionOnly
    /\ "inputs:a" \in attrs
    /\ "inputs:a" \notin CompiledInputs
    /\ lens["inputs:a"] = 0
    /\ last.launch # None

\* C16 (as claimed): the evaluation that follows one whose recompile attempt
\* failed, and finds an attribute event pending, attempts to recompile.
C16_RetryOnEvent ==
    [][(/\ failed
        /\ userAttrsEvent # EventNone
        /\ last'.kind = "call" /\ last'.escaped = None)
       => last'.init # "none"]_vars

\* C17: an evaluation in which compute(db, device) returned (after a
\* dispatch, without outputs, or after a rejected recompile attempt) leaves
\* the event tag none; one that an exception aborted leaves the tag as it
\* found it; and an evaluation that finds the state invalid and a tag
\* pending attempts to recompile.
C17_EventConsumed ==
    /\ (Ran /\ last.exc = None) => (userAttrsEvent = EventNone /\ last.eventReset)
    /\ (Called /\ (last.escaped # None \/ last.exc # None)) =>
          (userAttrsEvent = last.event /\ ~last.eventReset)
    /\ (Ran /\ ~last.pre.is_valid /\ last.event # EventNone) => Attempted

\* C17, the case: an invalid state whose snapshot is current, a pending
\* addition, a new attempt that raised, and the tag still pending.
C17_Witness ==
    /\ Ran
    /\ ~last.pre.is_valid
    /\ SnapshotWasCurrent
    /\ last.event = {"added"}
    /\ last.init = "raise"
    /\ userAttrsEvent = {"added"}

\* C18: an evaluation that attempted to recompile, whatever became of the
\* attempt, leaves the snapshot's dimension count, mode, text and path equal
\* to its inputs; and in embedded mode the evaluation that follows a failed
\* attempt with the same inputs and no event pending does not attempt again.
C18_SnapshotBeforeCompile ==
    [][/\ (last'.kind = "call" /\ last'.escaped = None /\ last'.init # "none") =>
             /\ state'.dim_count = Some(inputs'.dimCount)
             /\ state'.code_provider = Some(inputs'.codeProvider)
             /\ state'.code_str = Some(inputs'.codeStr)
             /\ state'.code_file = Some(inputs'.codeFile)
       /\ (/\ FailedAttempt
           /\ inputs.codeProvider = "embedded"
           /\ userAttrsEvent = EventNone
           /\ last'.kind = "call" /\ last'.escaped = None)
          => last'.init = "none"]_vars

\* C18, the case: an attempt on an edited text raised, and the snapshot
\* holds the edited text.
C18_Witness ==
    /\ FailedAttempt
    /\ last.init = "raise"
    /\ last.pre.code_str # None
    /\ last.pre.code_str # Some(inputs.codeStr)
    /\ state.code_str = Some(inputs.codeStr)

\* C19 (as claimed): the unit the kernel is launched from was compiled from
\* the source the snapshot records: in embedded mode, from the snapshot's
\* text.
C19_NoStaleLaunch ==
    (Ran /\ last.launch # None /\ state.code_provider = Some("embedded")) =>
        Some(last.launch[1].module.name.user) = state.code_str

\* The input attributes of the stored unit that hold a buffer, must be set
\* for the node to compute, and are empty.
EmptyRequiredAttrs ==
    {a \in attrs :
        /\ get_port_type(a) = "input"
        /\ ~is_optional_for_compute(a)
        /\ \E i \in 1..Len(state.kernel_annotations[1].input) :
              /\ state.kernel_annotations[1].input[i][1] = ShortName(a)
              /\ state.kernel_annotations[1].input[i][2].array
        /\ a \in DOMAIN lens
        /\ lens[a] = 0}

\* C20: an evaluation that bound the arguments of a unit one of whose
\* required buffer inputs is empty launches nothing and writes nothing back:
\* after the binding it ends with the error that names such an input.
C20_NoLaunchOnEmptyInput ==
    (Ran /\ last.bound # None /\ EmptyRequiredAttrs # {}) =>
        /\ last.launch = None
        /\ last.written = <<>>
        /\ "launch" \notin Range(last.trace)
        /\ last.trace[Len(last.trace)] = "check_inputs"
        /\ last.exc # None
        /\ last.exc[1].type = "RuntimeError"
        /\ last.exc[1].attr \in EmptyRequiredAttrs

\* C20, the case: inputs:a is empty, the output was sized from it, and the
\* evaluation ended on the error naming inputs:a.
C20_Witness ==
    /\ Ran
    /\ last.bound # None
    /\ attrs = {"inputs:a", "outputs:a"}
    /\ lens["inputs:a"] = 0
    /\ last.sizes = << <<"a", 0>> >>
    /\ last.exc # None
    /\ last.exc[1].attr = "inputs:a"
    /\ last.launch = None

\* The position of a step in the evaluation's trace.
TraceIndex(step) == CHOOSE i \in 1..Len(last.trace) : last.trace[i] = step

\* The output members of the stored unit.
OutputMembers == {m[1] : m \in Range(state.kernel_annotations[1].output)}

\* C21: after a launch on the CPU every output member of the unit has been
\* written to its output attribute, once each, after the launch; after a
\* launch on a CUDA device no output attribute has been written.
C21_CopyBackByDevice ==
    (Ran /\ last.launch # None) =>
        /\ "write_output_attrs" \in Range(last.trace)
        /\ TraceIndex("launch") < TraceIndex("write_output_attrs")
        /\ IF last.launch[1].is_cuda
           THEN last.written = <<>>
           ELSE /\ Range(last.written) = OutputMembers
                /\ Len(last.written) = Cardinality(OutputMembers)
                /\ \A name \in OutputMembers : OutputAttr(name) \in attrs

\* C21, the case: a launch on the CPU of a unit with the output b, written
\* back.
C21_Witness ==
    /\ Ran
    /\ last.launch # None
    /\ ~last.launch[1].is_cuda
    /\ OutputMembers = {"b"}
    /\ last.written = <<"b">>

====
